---- MODULE Spec2Model ----
(***************************************************************************)
(* Model of DBI.py: the PostgreSQL table writer/reader DBInsert and its    *)
(* two module-level entry points sql2df and df2sql.                        *)
(*                                                                         *)
(* The database holds one table of interest, dad."test".  `tbl` is the     *)
(* table as the connection's open transaction sees it, `durable` the table *)
(* as of the last commit.  A call of to_sql runs in three steps (drop,     *)
(* create, insert), in the order of the three `if` statements of the       *)
(* method; `pc` is the position of the running call.                       *)
(***************************************************************************)
EXTENDS Integers, Sequences, FiniteSets, TLC

VARIABLES py, tbl, durable, pc, op, args, result, ret, log, pre, prev, create_sql

vars == <<py, tbl, durable, pc, op, args, result, ret, log, pre, prev, create_sql>>

(***************************************************************************)
(* Bounds of the model.                                                    *)
(***************************************************************************)
MaxRows == 1        \* rows of a DataFrame handed to a write
MaxTblRows == 2     \* rows the table may hold (append is not offered beyond)

(***************************************************************************)
(* Python values.                                                          *)
(***************************************************************************)
None == "<None>"

\* The interpreters the module's text can be run by.
PyVersions == {2, 3}

\* str(type(x)) / str(dt.type): the interpreter's rendering of a type object.
TypeRepr(t) ==
    IF py = 2 THEN "<type '" \o t \o "'>" ELSE "<class '" \o t \o "'>"

\* '{}'.format(x)
Fmt(x) == IF x = None THEN "None" ELSE x

\* The numpy scalar type hierarchy, as far as issubclass is asked about it.
Bases(t) ==
    CASE t = "numpy.datetime64" -> {"numpy.datetime64", "numpy.generic"}
      [] t = "numpy.int64"      -> {"numpy.int64", "numpy.integer", "numpy.generic"}
      [] t = "numpy.bool_"      -> {"numpy.bool_", "numpy.generic"}
      [] t = "numpy.float64"    -> {"numpy.float64", "numpy.floating", "numpy.generic"}
      [] OTHER                  -> {t, "numpy.generic"}

issubclass(t, classes) == Bases(t) \cap classes # {}

types ==
    [DATE     |-> "DATE",
     DATETIME |-> "TIMESTAMP WITHOUT TIME ZONE",
     INT      |-> "BIGINT",
     FLOAT    |-> "NUMERIC",
     VARCHAR  |-> "TEXT"]

(***************************************************************************)
(* DataFrames: a list of columns (element type of the column, Python type  *)
(* of the values it holds) and a list of rows.  A row is one opaque value. *)
(***************************************************************************)
Column(d, c) == [dtype |-> d, cell |-> c]

Columns ==
    { Column("numpy.datetime64", "pandas.Timestamp"),
      Column("numpy.int64", "numpy.int64"),
      Column("numpy.bool_", "numpy.bool_"),
      Column("numpy.float64", "numpy.float64"),
      Column("numpy.object_", "datetime.datetime"),
      Column("numpy.object_", "datetime.date"),
      Column("numpy.object_", "str") }

ColumnLists ==
    { <<c>> : c \in Columns }
    \cup { <<Column("numpy.int64", "numpy.int64"), Column("numpy.object_", "str"),
             Column("numpy.object_", "datetime.date")>> }

RowVals == {"r1", "r2"}

RowSeqs(n) == UNION { [1..k -> RowVals] : k \in 0..n }

DataFrame(cols, rows) == [kind |-> "DataFrame", cols |-> cols, rows |-> rows]

Frames == { DataFrame(c, r) : c \in ColumnLists, r \in RowSeqs(MaxRows) }

NoneData == [kind |-> "None", cols |-> <<>>, rows |-> <<>>]
ListData == [kind |-> "list", cols |-> <<>>, rows |-> <<>>]

\* What df2sql is handed as data: nothing, something that is no DataFrame, or
\* a DataFrame (the checks of df2sql look at nothing inside it).
Df2sqlData ==
    {NoneData, ListData}
    \cup { DataFrame(<<Column("numpy.int64", "numpy.int64")>>, r) : r \in RowSeqs(1) }

isinstance_DataFrame(data) == data.kind = "DataFrame"

(***************************************************************************)
(* The database.                                                           *)
(***************************************************************************)
Absent == [present |-> FALSE, cols |-> <<>>, rows |-> <<>>]

Table(cols, rows) == [present |-> TRUE, cols |-> cols, rows |-> rows]

\* DBInsert.__init__: the qualified name the instance works on.
tb_name(schema, table) == Fmt(schema) \o ".\"" \o Fmt(table) \o "\""

TargetName == tb_name("dad", "test")

Conn(t, d, l) == [tbl |-> t, durable |-> d, log |-> l, raised |-> ""]

\* con.commit()
commit(cs) == [cs EXCEPT !.durable = cs.tbl, !.log = Append(@, "COMMIT")]

\* cur.execute(sql) / cur.copy_from(...) of one statement on the open transaction.
cur_execute(cs, stmt) ==
    LET logged == [cs EXCEPT !.log = Append(@, stmt.kind)]
        reject == [logged EXCEPT !.log = Append(@, "REJECTED"), !.raised = "pg.Error"]
    IN  CASE stmt.kind = "DROP" ->
               IF cs.tbl.present THEN [logged EXCEPT !.tbl = Absent] ELSE reject
          [] stmt.kind = "CREATE" ->
               IF cs.tbl.present THEN reject
               ELSE [logged EXCEPT !.tbl = Table(stmt.cols, <<>>)]
          [] stmt.kind = "COPY" ->
               IF cs.tbl.present
               THEN [logged EXCEPT !.tbl.rows = cs.tbl.rows \o stmt.rows]
               ELSE reject
          [] OTHER -> reject

\* execute as it would be with con.commit() left out: the statement runs in
\* the open transaction and nothing is made durable.
execute_nocommit(cs, stmt) == cur_execute(cs, stmt)

\* DBInsert.execute
execute(cs, stmt) ==
    LET r == cur_execute(cs, stmt)
    IN  IF r.raised # "" THEN r ELSE commit(r)

\* DBInsert._table_exist: SELECT * ... LIMIT 1 through pandas; a failed read is
\* "no table", a read of no row is "no table" as well.
_table_exist(t) ==
    IF ~t.present THEN FALSE
    ELSE LET df_len == IF Len(t.rows) > 1 THEN 1 ELSE Len(t.rows)
         IN  IF df_len > 0 THEN TRUE ELSE FALSE

(***************************************************************************)
(* DBInsert._get_schema: one SQL type per column, or the exception of the  *)
(* sampling of the first row.                                              *)
(***************************************************************************)
sqltype(df, col) ==
    IF TypeRepr(col.dtype) = "<type 'numpy.datetime64'>" THEN types["DATETIME"]
    ELSE IF issubclass(col.dtype, {"numpy.datetime64"}) THEN types["DATETIME"]
    ELSE IF issubclass(col.dtype, {"numpy.integer", "numpy.bool_"}) THEN types["INT"]
    ELSE IF issubclass(col.dtype, {"numpy.floating"}) THEN types["FLOAT"]
    ELSE IF Len(df.rows) = 0 THEN "LookupError"        \* df[col][0] of no row
    ELSE LET sampl == col.cell
         IN  IF TypeRepr(sampl) = "<type 'datetime.datetime'>" THEN types["DATETIME"]
             ELSE IF TypeRepr(sampl) = "<type 'datetime.date'>" THEN types["DATE"]
             ELSE types["VARCHAR"]

_get_schema(df) ==
    IF ~isinstance_DataFrame(df)
    THEN [raised |-> "AttributeError", column_types |-> <<>>]
    ELSE LET column_types == [i \in 1..Len(df.cols) |-> sqltype(df, df.cols[i])]
         IN  IF \E i \in 1..Len(df.cols) : column_types[i] = "LookupError"
             THEN [raised |-> "LookupError", column_types |-> <<>>]
             ELSE [raised |-> "", column_types |-> column_types]

NoSchema == [raised |-> "unset", column_types |-> <<>>]

(***************************************************************************)
(* DBInsert._pg_copy_from: the datetime64 loop, to_csv, COPY, commit.      *)
(***************************************************************************)
_pg_copy_from(cs, df) ==
    IF ~isinstance_DataFrame(df) THEN [cs EXCEPT !.raised = "AttributeError"]
    ELSE IF \E i \in 1..Len(df.cols) :
                TypeRepr(df.cols[i].dtype) = "<type 'numpy.datetime64'>"
         THEN [cs EXCEPT !.raised = "NameError"]       \* df[k]: k is no name
    ELSE LET r == cur_execute(cs, [kind |-> "COPY", rows |-> df.rows])
         IN  IF r.raised # "" THEN r ELSE commit(r)

(***************************************************************************)
(* The argument checks of the two entry points.                            *)
(***************************************************************************)
\* The checks of df2sql as they would be with `data is None` alone, the
\* isinstance test left out.
df2sqlCheck_noisinstance(a) ==
    IF a.schema = None \/ a.table = None THEN "ValueError: no schema/table"
    ELSE IF a.con = None THEN "ValueError: no connection"
    ELSE IF a.data.kind = "None" THEN "ValueError: no data"
    ELSE "pass"

\* df2sql, the checks before the DBInsert is built.  `data == None` of a
\* DataFrame is a DataFrame, whose truth value `or` asks for and pandas refuses.
df2sqlCheck(a) ==
    IF a.schema = None \/ a.table = None THEN "ValueError: no schema/table"
    ELSE IF a.con = None THEN "ValueError: no connection"
    ELSE LET eq == IF a.data.kind = "None" THEN "True"
                   ELSE IF a.data.kind = "DataFrame" THEN "DataFrame"
                   ELSE "False"
         IN  IF eq = "DataFrame" THEN "ValueError: truth value is ambiguous"
             ELSE IF eq = "True" \/ ~isinstance_DataFrame(a.data)
                  THEN "ValueError: no data"
                  ELSE "pass"

sql2dfCheck(a) ==
    IF a.query = None \/ (a.query = None \/ a.table = None)
    THEN "ValueError: give query or table"
    ELSE IF a.query # None \/ (a.query # None /\ a.table # None)
         THEN "ValueError: choose one way"
         ELSE "pass"

ValidationErrors ==
    { "ValueError: no schema/table", "ValueError: no connection",
      "ValueError: no data", "ValueError: give query or table",
      "ValueError: choose one way", "ValueError: no query" }

ConflictError == "ValueError: already exists"

Policies == {"fail", "replace", "append"}

Queries == {None, "SELECT * FROM " \o TargetName, "SELEC"}

Args(data, schema, table, con, if_exists, query) ==
    [data |-> data, schema |-> schema, table |-> table, con |-> con,
     if_exists |-> if_exists, query |-> query]

NoPrev == [if_exists |-> "", result |-> ""]

(***************************************************************************)
(* DBInsert.read_sql                                                       *)
(***************************************************************************)
\* The backend's answer to a SELECT: the rows, or a rejection.
Select(sql) ==
    IF sql = "SELECT * FROM " \o TargetName /\ tbl.present
    THEN [raised |-> "", rows |-> tbl.rows]
    ELSE [raised |-> "pg.Error", rows |-> <<>>]

read_sql(a) ==
    LET name == tb_name(a.schema, a.table)
        sql  == IF name # "None.\"None\"" THEN "SELECT * FROM " \o name
                ELSE IF a.query # None THEN a.query
                ELSE None
    IN  IF sql = None
        THEN [result |-> "ValueError: no query", ret |-> <<>>, log |-> <<>>]
        ELSE LET r == Select(sql)
             IN  IF r.raised # ""
                 \* except pg.Error: print(err); then rows and names are unbound
                 THEN [result |-> "UnboundLocalError", ret |-> <<>>,
                       log |-> <<"SELECT", "REJECTED">>]
                 ELSE [result |-> "ok", ret |-> r.rows, log |-> <<"SELECT">>]

(***************************************************************************)
(* State machine.                                                          *)
(***************************************************************************)
InitTables ==
    {Absent} \cup { Table(_get_schema(f).column_types, f.rows) :
                      f \in { g \in Frames : _get_schema(g).raised = "" } }

Init ==
    /\ py \in PyVersions
    /\ tbl \in InitTables
    /\ durable = tbl
    /\ pc = "idle"
    /\ op = "none"
    /\ args = Args(NoneData, None, None, None, "", None)
    /\ result = "none"
    /\ ret = <<>>
    /\ log = <<>>
    /\ pre = tbl
    /\ prev = NoPrev
    /\ create_sql = NoSchema

\* The end of a call: it returned (raised = "") or raised.
Finish(cs, raised) ==
    /\ tbl' = cs.tbl
    /\ durable' = cs.durable
    /\ log' = cs.log
    /\ pc' = "idle"
    /\ result' = IF raised = "" THEN "ok" ELSE raised

\* DBInsert(schema, table, con).to_sql(df, if_exists), called directly.
ToSqlCall ==
    /\ pc = "idle"
    /\ \E df \in Frames, if_exists \in Policies :
         /\ if_exists = "append" => Len(durable.rows) + Len(df.rows) <= MaxTblRows
         /\ args' = Args(df, "dad", "test", "con", if_exists, None)
    /\ op' = "to_sql"
    /\ pc' = "drop"
    /\ result' = "running"
    /\ ret' = <<>>
    /\ log' = <<>>
    /\ pre' = durable
    /\ prev' = IF op = "to_sql" /\ args.if_exists = "replace"
               THEN [if_exists |-> args.if_exists, result |-> result]
               ELSE NoPrev
    /\ create_sql' = NoSchema
    /\ UNCHANGED <<py, tbl, durable>>

\* df2sql(data, schema, table, con, if_exists)
df2sql ==
    /\ pc = "idle"
    /\ \E data \in Df2sqlData,
          schema \in {None, "dad"}, table \in {None, "test"},
          con \in {None, "con"}, if_exists \in Policies :
         LET a == Args(data, schema, table, con, if_exists, None)
             check == df2sqlCheck(a)
         IN  /\ if_exists = "append" =>
                    Len(durable.rows) + Len(data.rows) <= MaxTblRows
             /\ args' = a
             /\ pc' = IF check = "pass" THEN "drop" ELSE "idle"
             /\ result' = IF check = "pass" THEN "running" ELSE check
    /\ op' = "df2sql"
    /\ ret' = <<>>
    /\ log' = <<>>
    /\ pre' = durable
    /\ prev' = NoPrev
    /\ create_sql' = NoSchema
    /\ UNCHANGED <<py, tbl, durable>>

\* to_sql, "# drop table"
StepDrop ==
    /\ pc = "drop"
    /\ LET probe == args.if_exists = "replace"
           cs    == Conn(tbl, durable, IF probe THEN Append(log, "PROBE") ELSE log)
       IN  IF probe /\ _table_exist(tbl)
           THEN LET r == execute(cs, [kind |-> "DROP"])
                IN  IF r.raised # "" THEN Finish(r, r.raised)
                    ELSE /\ tbl' = r.tbl
                         /\ durable' = r.durable
                         /\ log' = r.log
                         /\ pc' = "create"
                         /\ UNCHANGED result
           ELSE /\ log' = cs.log
                /\ pc' = "create"
                /\ UNCHANGED <<tbl, durable, result>>
    /\ UNCHANGED <<py, op, args, ret, pre, prev, create_sql>>

\* to_sql, "# create table"
StepCreate ==
    /\ pc = "create"
    /\ LET probe  == args.if_exists # "replace" /\ args.if_exists \in {"fail", "append"}
           cs     == Conn(tbl, durable, IF probe THEN Append(log, "PROBE") ELSE log)
           create == args.if_exists = "replace" \/ (probe /\ ~_table_exist(tbl))
           schema == _get_schema(args.data)
       IN  IF ~create
           THEN /\ log' = cs.log
                /\ pc' = "insert"
                /\ UNCHANGED <<tbl, durable, result, create_sql>>
           ELSE /\ create_sql' = schema
                /\ IF schema.raised # "" THEN Finish(cs, schema.raised)
                   ELSE LET r == execute(cs, [kind |-> "CREATE",
                                              cols |-> schema.column_types])
                        IN  IF r.raised # "" THEN Finish(r, r.raised)
                            ELSE /\ tbl' = r.tbl
                                 /\ durable' = r.durable
                                 /\ log' = r.log
                                 /\ pc' = "insert"
                                 /\ UNCHANGED result
    /\ UNCHANGED <<py, op, args, ret, pre, prev>>

\* to_sql, "# insert table"
StepInsert ==
    /\ pc = "insert"
    /\ LET probe == args.if_exists = "fail"
           cs    == Conn(tbl, durable, IF probe THEN Append(log, "PROBE") ELSE log)
       IN  IF probe /\ _table_exist(tbl)
           THEN Finish(cs, ConflictError)
           ELSE LET r == _pg_copy_from(cs, args.data)
                IN  Finish(r, r.raised)
    /\ UNCHANGED <<py, op, args, ret, pre, prev, create_sql>>

\* DBInsert(schema, table, con).read_sql(query), called directly.
ReadSqlCall ==
    /\ pc = "idle"
    /\ \E query \in Queries, schema \in {None, "dad"}, table \in {None, "test"} :
         LET a == Args(NoneData, schema, table, "con", "", query)
             r == read_sql(a)
         IN  /\ args' = a
             /\ result' = r.result
             /\ ret' = r.ret
             /\ log' = r.log
    /\ op' = "read_sql"
    /\ pre' = durable
    /\ prev' = NoPrev
    /\ create_sql' = NoSchema
    /\ UNCHANGED <<py, tbl, durable, pc>>

\* sql2df(query, schema, table, con)
sql2df ==
    /\ pc = "idle"
    /\ \E query \in Queries, schema \in {None, "dad"}, table \in {None, "test"} :
         LET a == Args(NoneData, schema, table, "con", "", query)
             check == sql2dfCheck(a)
             r == IF check = "pass" THEN read_sql(a)
                  ELSE [result |-> check, ret |-> <<>>, log |-> <<>>]
         IN  /\ args' = a
             /\ result' = r.result
             /\ ret' = r.ret
             /\ log' = r.log
    /\ op' = "sql2df"
    /\ pre' = durable
    /\ prev' = NoPrev
    /\ create_sql' = NoSchema
    /\ UNCHANGED <<py, tbl, durable, pc>>

\* The write path.
Next ==
    \/ ToSqlCall
    \/ df2sql
    \/ StepDrop
    \/ StepCreate
    \/ StepInsert

Spec == Init /\ [][Next]_vars

\* The read path.
NextRead ==
    \/ ReadSqlCall
    \/ sql2df

SpecRead == Init /\ [][NextRead]_vars

(***************************************************************************)
(* Properties.                                                             *)
(***************************************************************************)
Range(q) == { q[i] : i \in 1..Len(q) }

\* Statement k was issued in the running (or last) call.
Issued(k) == k \in Range(log)

\* Statement k was issued and committed right after it.
HasCommitted(k) ==
    \E i \in 1..Len(log) : log[i] = k /\ i < Len(log) /\ log[i + 1] = "COMMIT"

\* A direct call of to_sql with this policy has ended.
Ended(policy) == pc = "idle" /\ op = "to_sql" /\ args.if_exists = policy

\* The frame has a row to sample, and no column that _pg_copy_from's datetime64
\* branch takes: neither _get_schema nor _pg_copy_from raises on its own.
Loadable(df) ==
    /\ Len(df.rows) > 0
    /\ _get_schema(df).raised = ""
    /\ _pg_copy_from(Conn(Table(<<>>, <<>>), Table(<<>>, <<>>), <<>>), df).raised = ""

\* C1: a write with policy 'fail' onto a table that exists (with rows or
\* empty) ends with the 'already exists' error and leaves the database as it
\* was: nothing is dropped, created or copied.  (Stated for frames that load.)
C1_FailOnExistingRejects ==
    (Ended("fail") /\ pre.present /\ Loadable(args.data)) =>
        /\ result = ConflictError
        /\ durable = pre /\ tbl = pre
        /\ ~HasCommitted("DROP") /\ ~HasCommitted("CREATE") /\ ~HasCommitted("COPY")

\* C2: of two 'replace' writes in a row both succeed, and the table then holds
\* exactly the rows of the second one.  (Stated for a second write, of a frame
\* that loads, after a first one that succeeded.)
C2_ReplaceTwice ==
    (Ended("replace") /\ prev.if_exists = "replace" /\ prev.result = "ok"
       /\ Loadable(args.data)) =>
        /\ result = "ok"
        /\ durable.present /\ durable.rows = args.data.rows

\* C3: a write with policy 'append' onto a table that exists (with any number
\* of rows, zero included) issues no DROP and no CREATE and leaves the table
\* with its previous rows followed by the rows written.  (Stated for frames
\* that load.)
C3_AppendOnExisting ==
    (Ended("append") /\ pre.present /\ Loadable(args.data)) =>
        /\ result = "ok"
        /\ ~Issued("DROP") /\ ~Issued("CREATE")
        /\ durable.present /\ durable.rows = pre.rows \o args.data.rows

\* C4: a write with policy 'fail' onto a table that does not exist creates the
\* table from the inferred schema, then loads it: it ends without error and
\* the new table holds exactly the rows written.  (Stated for frames of at
\* least one row, whose schema is inferred without an exception.)
C4_FailOnMissingCreates ==
    (Ended("fail") /\ ~pre.present /\ Len(args.data.rows) > 0
       /\ _get_schema(args.data).raised = "") =>
        /\ result = "ok"
        /\ HasCommitted("CREATE") /\ HasCommitted("COPY")
        /\ durable = Table(_get_schema(args.data).column_types, args.data.rows)

\* C5: a write with policy 'append' onto a table that does not exist creates
\* the table with the schema inferred from the data, then loads it: afterwards
\* the table exists and holds exactly the rows appended.  (Stated for frames
\* of at least one row, whose schema is inferred without an exception.)
C5_AppendOnMissingCreates ==
    (Ended("append") /\ ~pre.present /\ Len(args.data.rows) > 0
       /\ _get_schema(args.data).raised = "") =>
        /\ result = "ok"
        /\ HasCommitted("CREATE") /\ HasCommitted("COPY")
        /\ durable = Table(_get_schema(args.data).column_types, args.data.rows)

\* C6: sql2df raises its validation error exactly when not exactly one of
\* 'query' and the (schema, table) pair is given; given exactly one, it goes on
\* to run the query.
C6_ReadValidation ==
    op = "sql2df" =>
        LET byQuery == args.query # None
            byTable == args.schema # None /\ args.table # None
            one     == byQuery # byTable
        IN  /\ (result \in ValidationErrors) <=> ~one
            /\ one => Issued("SELECT")

\* C7: df2sql without schema, table, connection or data, or with data that is
\* no DataFrame, raises its validation error before anything is sent to the
\* database: no probe, DROP, CREATE, COPY or commit.
C7_WriteValidationFirst ==
    (op = "df2sql" /\ (\/ args.schema = None \/ args.table = None
                       \/ args.con = None \/ args.data.kind = "None"
                       \/ ~isinstance_DataFrame(args.data))) =>
        /\ pc = "idle"
        /\ result \in { "ValueError: no schema/table", "ValueError: no connection",
                        "ValueError: no data" }
        /\ log = <<>>
        /\ tbl = pre /\ durable = pre

C7_Witness ==
    /\ op = "df2sql" /\ result = "ValueError: no data"
    /\ args.data = ListData /\ args.schema = "dad" /\ args.table = "test"
    /\ args.con = "con" /\ durable.present

\* C8: when the backend rejects the query of read_sql, that error is what the
\* call raises.
C8_ReadErrorPropagates ==
    (op = "read_sql" /\ Issued("REJECTED")) => result = "pg.Error"

\* The SQL type the precedence of C9 gives a column.
ClaimedType(col) ==
    IF col.dtype = "numpy.datetime64" THEN "TIMESTAMP WITHOUT TIME ZONE"
    ELSE IF col.dtype \in {"numpy.int64", "numpy.bool_"} THEN "BIGINT"
    ELSE IF col.dtype = "numpy.float64" THEN "NUMERIC"
    ELSE IF col.cell = "datetime.datetime" THEN "TIMESTAMP WITHOUT TIME ZONE"
    ELSE IF col.cell = "datetime.date" THEN "DATE"
    ELSE "TEXT"

\* C9: _get_schema gives every column, in column order, the one SQL type of
\* the precedence: date-time, integer or boolean, floating point, then the
\* first row's value; it raises for no frame.  (Stated for frames of at least
\* one row.)
C9_TypeInference ==
    (op = "to_sql" /\ create_sql.raised # "unset" /\ Len(args.data.rows) > 0) =>
        /\ create_sql.raised = ""
        /\ create_sql.column_types =
              [i \in 1..Len(args.data.cols) |-> ClaimedType(args.data.cols[i])]

\* C10: every unit of the write pipeline is committed before the next step
\* begins, and nothing spans the steps: once a DROP is committed and no CREATE
\* after it, the table is gone, whatever becomes of the call.
C10_StepsCommitAlone ==
    /\ durable = tbl
    /\ \A k \in {"DROP", "CREATE", "COPY"} :
         (Issued(k) /\ ~Issued("REJECTED")) => HasCommitted(k)
    /\ (HasCommitted("DROP") /\ ~HasCommitted("CREATE")) => ~durable.present

\* A 'replace' write dropped a table that held rows and failed before creating it.
C10_Witness ==
    /\ Ended("replace") /\ result # "ok"
    /\ pre.present /\ Len(pre.rows) > 0
    /\ HasCommitted("DROP") /\ ~Issued("CREATE")
    /\ ~durable.present

====
